---- MODULE Spec2Model ----
(***************************************************************************)
(* A model of the BM25 retrieval script (bm25.py, with the differing       *)
(* evaluation functions of the older BM25.py): the index builder           *)
(* process_documents, the query normaliser process_single_query, the       *)
(* scorer bm25_similarities and the evaluation functions.                   *)
(*                                                                         *)
(* Text.  A line is a sequence of chunks whose concatenation is the line:  *)
(* a chunk is one punctuation, whitespace, hyphen or full-stop character,  *)
(* or a run of letters and digits.  The first two chunks of a line are     *)
(* single characters, so that line[0:2] is their concatenation.  A word is *)
(* the sequence of its alphanumeric chunks; Str joins it into the string   *)
(* used as a dictionary key.                                               *)
(*                                                                         *)
(* Numbers.  A Python float is modelled in fixed point, in units of        *)
(* 1/Scale, every operation rounding down to that grid (FMul, FDiv, FSqrt, *)
(* FLog2), as every float operation rounds to the double grid.  Counts     *)
(* held in floats (length) are kept as integers.                            *)
(***************************************************************************)
EXTENDS Integers, Sequences, FiniteSets, TLC

VARIABLES
    pc,                \* where the program is: "build", "dumped", "loaded", "raised", ...
    error,             \* the uncaught exception that ended the run, or "none"
    lineno,            \* lines of the corpus read so far
    first_line,        \* line[0:2] of the first corpus line ("" before any line)
    section,           \* process_documents: the local section
    document_ID,       \* process_documents: the local document_ID
    length,            \* process_documents: the local length (a count held in a float)
    average_length,    \* process_documents: the local average_length
    num_of_documents,  \* process_documents: the local num_of_documents
    stemming,          \* the stemming cache: word -> stem
    term_vectors,      \* term -> (document ID -> appearance times)
    document_lengths,  \* document ID -> length
    occurrences,       \* history: term -> token occurrences that yielded the term
    body_terms,        \* history: document ID -> valid terms read in its body section
    last_tag,          \* history: line[0:2] of the most recent tag line of the corpus
    last_content,      \* history: the last corpus line handed to the normaliser
    index_file,        \* index.json: the dumped triple, keys as strings
    nums_of_documents, \* the global set when the index is loaded
    query_terms,       \* the last query handed to bm25_similarities
    similarities,      \* what bm25_similarities returned for it
    last_query,        \* history: the last line handed to process_single_query
    queries,           \* process_queries: its locals section, query, query_ID, query_list
    query_history,     \* history of process_queries: last_tag, lineno, body_stems
    script,            \* evaluation mode: the script that runs ("" when none does)
    relevance_scores,  \* query ID -> [(document ID, relevance score)], sorted
    query_results,     \* query ID -> [(document ID, rank)]
    step,              \* evaluation mode: metrics printed so far
    ndcgs,             \* query ID -> what ndcg_at_n yielded for it
    report             \* metric -> the value printed

buildVars == <<lineno, first_line, section, document_ID, length, average_length,
               num_of_documents, occurrences, body_terms, last_tag, last_content>>
indexVars == <<stemming, term_vectors, document_lengths>>
queryVars == <<nums_of_documents, query_terms, similarities, last_query>>
batchVars == <<queries, query_history>>
evalVars == <<script, relevance_scores, query_results, step, ndcgs, report>>

-----------------------------------------------------------------------------
(* Constants of bm25.py *)

ID == ".I"
TITLE == ".T"
AUTHORS == ".A"
BIBLIOGRAPHY == ".B"
WORDS == ".W"
LABELS == {ID, TITLE, AUTHORS, BIBLIOGRAPHY, WORDS}
CONTENTS == {AUTHORS, BIBLIOGRAPHY, WORDS}
MOST_RELEVANT == 15
RELEVANCE_SCORE_THRESHOLD == 4
RELEVANCE_SCORE_FIX == 5
N == 10

\* The fixed-point grid: one unit is 1/Scale.
Scale == 10 ^ 3
K == Scale
B == (3 * Scale) \div 4

\* section before its first assignment.
UNBOUND == "<unbound>"
NoError == "none"

-----------------------------------------------------------------------------
(* Dictionaries: functions with a finite domain *)

Put(d, k, v) == (k :> v) @@ d
Remove(d, k) == [x \in DOMAIN d \ {k} |-> d[x]]
Empty == <<>>

RECURSIVE SumSeq(_)
SumSeq(s) == IF s = <<>> THEN 0 ELSE Head(s) + SumSeq(Tail(s))

RECURSIVE SumOver(_, _)
SumOver(d, keys) ==
    IF keys = {} THEN 0
    ELSE LET k == CHOOSE x \in keys : TRUE IN d[k] + SumOver(d, keys \ {k})

-----------------------------------------------------------------------------
(* Fixed-point arithmetic *)

FMul(a, b) == (a * b) \div Scale
FDiv(a, b) == (a * Scale) \div b

\* The largest r with r * r <= x, by bisection on lo <= r < hi.
RECURSIVE ISqrt(_, _, _)
ISqrt(x, lo, hi) ==
    IF hi - lo <= 1 THEN lo
    ELSE LET mid == (lo + hi) \div 2
         IN IF mid * mid <= x THEN ISqrt(x, mid, hi) ELSE ISqrt(x, lo, mid)

\* math.sqrt of a count n, on the grid.
FSqrt(n) == ISqrt(n * Scale * Scale, 0, (n + 1) * Scale)

\* FLog2 works on a binary grid: One is 1.0 for the squarings and LogOne the
\* weight of 1.0 in the fraction it returns.
One == 2 ^ 12
LogOne == 2 ^ 10

\* The binary fraction of log2(x / One) for One <= x < 2 * One, by repeated
\* squaring: the next bit (of weight w) is 1 exactly when the square reaches 2.
RECURSIVE LogFrac(_, _)
LogFrac(x, w) ==
    IF w = 0 THEN 0
    ELSE LET sq == (x * x) \div One
         IN IF sq >= 2 * One
            THEN w + LogFrac(sq \div 2, w \div 2)
            ELSE LogFrac(sq, w \div 2)

\* The exponent e with 2^e <= a/b < 2^(e+1), for a, b > 0.
RECURSIVE LogExp(_, _)
LogExp(a, b) ==
    IF a >= 2 * b THEN 1 + LogExp(a, 2 * b)
    ELSE IF a < b THEN LogExp(2 * a, b) - 1
    ELSE 0

\* math.log(a / b, 2) for a, b > 0, on the grid.
FLog2(a, b) ==
    LET e == LogExp(a, b)
        x == IF e >= 0 THEN (a * One) \div (b * 2 ^ e) ELSE (a * 2 ^ (-e) * One) \div b
    IN e * Scale + (LogFrac(x, LogOne \div 2) * Scale) \div LogOne

-----------------------------------------------------------------------------
(* Text *)

\* string.punctuation without "-" and ".": the characters of
\* removing_punctuation_map (the grave accent, which the parser cannot read
\* in a string, is left out).
PUNCTUATION ==
    {"!", "\"", "#", "$", "%", "&", "'", "(", ")", "*", "+", ",", "/", ":", ";",
     "<", "=", ">", "?", "@", "[", "\\", "]", "^", "_", "{", "|", "}", "~"}
WHITESPACE == {" ", "\t", "\n"}

\* The runs of digits that occur in the modelled texts.
DIGITS == {"0", "1", "2", "3", "12", "1400"}

\* stopwords.txt, as far as the modelled texts go.
stop_words == {"the", "and", "a", "an", "in"}

\* porter.PorterStemmer.stem on the words of the modelled texts; a word not
\* listed is its own stem.
StemTable ==
    [models |-> "model", flows |-> "flow", winds |-> "wind", subs |-> "sub"]
stem(s) == IF s \in DOMAIN StemTable THEN StemTable[s] ELSE s

\* str.lower on a chunk.
LowerTable == [I |-> "i", T |-> "t", A |-> "a", B |-> "b", W |-> "w", X |-> "x",
               Solar |-> "solar", QUIT |-> "quit"]
lower(c) == IF c \in DOMAIN LowerTable THEN LowerTable[c] ELSE c

RECURSIVE Str(_)
Str(word) == IF word = <<>> THEN "" ELSE Head(word) \o Str(Tail(word))

\* line[0:2]
Slice2(line) ==
    IF Len(line) >= 2 THEN line[1] \o line[2]
    ELSE IF Len(line) = 1 THEN line[1] ELSE ""

\* str.translate(removing_punctuation_map)
translate(line) ==
    [i \in 1..Len(line) |-> IF line[i] \in PUNCTUATION THEN " " ELSE line[i]]

\* str.replace("--", " "): left to right, not overlapping.
RECURSIVE replace_double_hyphen(_)
replace_double_hyphen(s) ==
    IF s = <<>> THEN <<>>
    ELSE IF Len(s) >= 2 /\ s[1] = "-" /\ s[2] = "-"
         THEN <<" ">> \o replace_double_hyphen(SubSeq(s, 3, Len(s)))
         ELSE <<s[1]>> \o replace_double_hyphen(Tail(s))

\* s.split(sep) on chunk sequences: the pieces between separators, empty
\* pieces kept (keep = TRUE, str.split("-")) or dropped (str.split()).
RECURSIVE split_on(_, _, _, _)
split_on(s, seps, keep, cur) ==
    IF s = <<>> THEN (IF keep \/ cur # <<>> THEN <<cur>> ELSE <<>>)
    ELSE IF s[1] \in seps
         THEN (IF keep \/ cur # <<>> THEN <<cur>> ELSE <<>>)
              \o split_on(Tail(s), seps, keep, <<>>)
         ELSE split_on(Tail(s), seps, keep, Append(cur, s[1]))

IsDot(c) == c = "."
IsHyphen(c) == c = "-"
NotDot(c) == c # "."
NotHyphen(c) == c # "-"

\* is_number: int(word) succeeds exactly on a non-empty run of digits (signs,
\* underscores and spaces never reach it: they are split or translated away).
is_number(word) == word # <<>> /\ \A i \in 1..Len(word) : word[i] \in DIGITS

is_valid(word) ==
    Str(word) # "" /\ Str(word) \notin stop_words /\ ~is_number(word)

-----------------------------------------------------------------------------
(* The normaliser shared by process_documents and process_single_query *)

\* line.translate(...).replace("--", " ").split()
terms_of(line) ==
    split_on(replace_double_hyphen(translate(line)), WHITESPACE, FALSE, <<>>)

\* term.replace(".", "")
remove_dots(term) == SelectSeq(term, NotDot)

\* The words one term hands to add_new_word, in order: the compound, then,
\* for a term with a hyphen, each valid element; nothing at all when the
\* compound is not valid.  term has its full stops removed already.
words_of_term(term) ==
    LET compound == SelectSeq(term, NotHyphen)
        term_split == split_on(term, {"-"}, TRUE, <<>>)
    IN IF is_valid(compound)
       THEN <<compound>> \o
            (IF Len(term_split) > 1 THEN SelectSeq(term_split, is_valid) ELSE <<>>)
       ELSE <<>>

\* if word not in stemming: stemming[word] = stemmer.stem(word)
cache_stem(cache, word) ==
    IF Str(word) \in DOMAIN cache THEN cache
    ELSE Put(cache, Str(word), stem(Str(word)))

-----------------------------------------------------------------------------
(* process_documents *)

\* A slip the first posting invites: a new entry started at zero.
posting_count_from_zero(vector, doc) ==
    IF doc \in DOMAIN vector THEN vector[doc] + 1 ELSE 0

\* (term_vectors[stemmed_word])[document_ID] += 1, or a new entry of 1.
posting_count(vector, doc) ==
    IF doc \in DOMAIN vector THEN vector[doc] + 1 ELSE 1

\* add_new_word of process_documents, on the pair [stemming, term_vectors].
add_new_word(idx, word, doc) ==
    LET cache == cache_stem(idx.stemming, word)
        stemmed_word == cache[Str(word)]
        vector == IF stemmed_word \in DOMAIN idx.term_vectors
                  THEN idx.term_vectors[stemmed_word] ELSE Empty
        count == posting_count(vector, doc)
    IN [stemming |-> cache,
        term_vectors |-> Put(idx.term_vectors, stemmed_word, Put(vector, doc, count))]

RECURSIVE add_words(_, _, _)
add_words(idx, words, doc) ==
    IF words = <<>> THEN idx
    ELSE add_words(add_new_word(idx, Head(words), doc), Tail(words), doc)

\* The calls of one content line: for term in line.split(): ...
RECURSIVE words_of_terms(_)
words_of_terms(terms) ==
    IF terms = <<>> THEN <<>>
    ELSE words_of_term(remove_dots(Head(terms))) \o words_of_terms(Tail(terms))

\* length += 1.0 once per term whose compound is valid.
valid_terms(terms) ==
    Len(SelectSeq(terms, LAMBDA t : words_of_term(remove_dots(t)) # <<>>))

\* History: the stems one term yields, and the count of term occurrences per
\* stem over the indexed lines.
stems_of_term(term) ==
    LET ws == words_of_term(remove_dots(term))
    IN {stem(Str(ws[i])) : i \in 1..Len(ws)}

RECURSIVE count_occurrences(_, _)
count_occurrences(occ, terms) ==
    IF terms = <<>> THEN occ
    ELSE LET ss == stems_of_term(Head(terms))
             occ1 == [t \in DOMAIN occ \cup ss |->
                        (IF t \in DOMAIN occ THEN occ[t] ELSE 0)
                        + (IF t \in ss THEN 1 ELSE 0)]
         IN count_occurrences(occ1, Tail(terms))

\* A tag line: a full stop and a letter or digit at the start of the line.
is_tag_line(line) ==
    /\ Len(line) >= 2
    /\ line[1] = "."
    /\ line[2] \notin PUNCTUATION \cup WHITESPACE \cup {"-", "."}

\* One turn of "for line in fp" (bm25.py 117-172).
ProcessLine(line) ==
    /\ pc = "build"
    /\ lineno' = lineno + 1
    /\ first_line' = IF lineno = 0 THEN Slice2(line) ELSE first_line
    /\ last_tag' = IF is_tag_line(line) THEN Slice2(line) ELSE last_tag
    /\ LET current_section == Slice2(line) IN
       IF current_section \in LABELS THEN
            /\ IF current_section = ID
               THEN /\ document_lengths' = Put(document_lengths, document_ID, FSqrt(length))
                    /\ average_length' = average_length + FSqrt(length)
                    /\ document_ID' = document_ID + 1
                    /\ num_of_documents' = num_of_documents + 1
                    /\ length' = 0
               ELSE UNCHANGED <<document_lengths, average_length, document_ID,
                                num_of_documents, length>>
            /\ section' = current_section
            /\ UNCHANGED <<pc, error, stemming, term_vectors, occurrences, body_terms,
                           last_content>>
       ELSE IF section = UNBOUND THEN
            \* "if section in CONTENTS" reads a local never assigned.
            /\ pc' = "raised"
            /\ error' = "UnboundLocalError"
            /\ UNCHANGED <<section, document_ID, length, average_length,
                           num_of_documents, occurrences, body_terms, last_content,
                           indexVars>>
       ELSE IF section \in CONTENTS THEN
            LET terms == terms_of(line)
                idx == add_words([stemming |-> stemming, term_vectors |-> term_vectors],
                                 words_of_terms(terms), document_ID)
            IN /\ stemming' = idx.stemming
               /\ term_vectors' = idx.term_vectors
               /\ length' = IF section = WORDS THEN length + valid_terms(terms) ELSE length
               /\ occurrences' = count_occurrences(occurrences, terms)
               /\ last_content' = line
               /\ body_terms' =
                     IF section = WORDS
                     THEN Put(body_terms, document_ID,
                              (IF document_ID \in DOMAIN body_terms
                               THEN body_terms[document_ID] ELSE 0) + valid_terms(terms))
                     ELSE body_terms
               /\ UNCHANGED <<pc, error, section, document_ID, average_length,
                              num_of_documents, document_lengths>>
       ELSE UNCHANGED <<pc, error, section, document_ID, length, average_length,
                        num_of_documents, occurrences, body_terms, last_content,
                        indexVars>>
    /\ UNCHANGED <<index_file, queryVars, batchVars, evalVars>>

\* json.dump of the triple: a dictionary key becomes a string.
dump_keys(d) == [k \in {ToString(x) : x \in DOMAIN d} |->
                    d[CHOOSE x \in DOMAIN d : ToString(x) = k]]
dump_index(st, tv, dl) ==
    <<st, [t \in DOMAIN tv |-> dump_keys(tv[t])], dump_keys(dl)>>

\* A slip the average invites: the last document, which no ".I" line closes,
\* left out of the sum.
corpus_average_without_last(last, sum, n) == sum \div n

\* average_length = (document_lengths[document_ID] + average_length) / num_of_documents
corpus_average(last, sum, n) == (last + sum) \div n

\* document_lengths[document_ID] = math.sqrt(length); del document_lengths[0]
closed_lengths(lengths, last, value) == Remove(Put(lengths, last, value), 0)

\* After the loop (bm25.py 174-184), then json.dump (459-460).
EndOfFile ==
    /\ pc = "build"
    /\ LET lengths == closed_lengths(document_lengths, document_ID, FSqrt(length)) IN
       IF document_ID \notin DOMAIN lengths THEN
            \* document_lengths[document_ID] after del document_lengths[0]
            /\ pc' = "raised"
            /\ error' = "KeyError"
            /\ document_lengths' = lengths
            /\ UNCHANGED <<average_length, index_file>>
       ELSE LET average == corpus_average(lengths[document_ID], average_length,
                                          num_of_documents) IN
            /\ average_length' = average
            /\ IF average = 0
               THEN /\ pc' = "raised"
                    /\ error' = "ZeroDivisionError"
                    /\ document_lengths' = lengths
                    /\ UNCHANGED index_file
               ELSE /\ pc' = "dumped"
                    /\ document_lengths' =
                          [d \in DOMAIN lengths |-> FDiv(lengths[d], average)]
                    /\ index_file' = dump_index(stemming, term_vectors, document_lengths')
                    /\ UNCHANGED error
    /\ UNCHANGED <<lineno, first_line, section, document_ID, length, num_of_documents,
                   occurrences, body_terms, last_tag, last_content, stemming,
                   term_vectors, queryVars, batchVars, evalVars>>

-----------------------------------------------------------------------------
(* Loading the index (bm25.py 432-443) *)

\* The largest key int() is asked to read back.
MaxKey == 64

\* int(ID) of a key written by json.dump.
parse_int(k) == CHOOSE i \in 0..MaxKey : ToString(i) = k
load_keys(d) == [i \in {parse_int(k) : k \in DOMAIN d} |->
                    d[CHOOSE k \in DOMAIN d : parse_int(k) = i]]

LoadIndex ==
    /\ pc = "dumped"
    /\ pc' = "loaded"
    /\ stemming' = index_file[1]
    /\ term_vectors' = [t \in DOMAIN index_file[2] |-> load_keys(index_file[2][t])]
    /\ document_lengths' = load_keys(index_file[3])
    /\ nums_of_documents' = Cardinality(DOMAIN document_lengths')
    /\ UNCHANGED <<error, buildVars, index_file, query_terms, similarities, last_query,
                   batchVars, evalVars>>

-----------------------------------------------------------------------------
(* process_single_query (bm25.py 186-209) *)

\* add_new_word of process_single_query, on the pair [stemming, query_terms].
add_query_word(q, word) ==
    LET cache == cache_stem(q.stemming, word)
        stemmed_word == cache[Str(word)]
    IN [stemming |-> cache,
        query_terms |-> IF \E i \in 1..Len(q.query_terms) : q.query_terms[i] = stemmed_word
                        THEN q.query_terms
                        ELSE Append(q.query_terms, stemmed_word)]

RECURSIVE add_query_words(_, _)
add_query_words(q, words) ==
    IF words = <<>> THEN q
    ELSE add_query_words(add_query_word(q, Head(words)), Tail(words))

\* term.replace(".", "").lower()
lower_term(term) == [i \in 1..Len(term) |-> lower(term[i])]

RECURSIVE words_of_query_terms(_)
words_of_query_terms(terms) ==
    IF terms = <<>> THEN <<>>
    ELSE words_of_term(lower_term(remove_dots(Head(terms))))
         \o words_of_query_terms(Tail(terms))

\* Returns [stemming, query_terms]: the cache as the call leaves it, and the
\* list it returns.
process_single_query(cache, query) ==
    add_query_words([stemming |-> cache, query_terms |-> <<>>],
                    words_of_query_terms(terms_of(query)))

-----------------------------------------------------------------------------
(* bm25_similarities (bm25.py 237-260) *)

\* A change the negative values invite: the idf clamped at zero.
idf_clamped(nums, n_i) ==
    IF FLog2(2 * (nums - n_i) + 1, 2 * n_i + 1) < 0 THEN 0
    ELSE FLog2(2 * (nums - n_i) + 1, 2 * n_i + 1)

\* math.log((nums_of_documents - n_i + 0.5) / (n_i + 0.5), 2); the quotient
\* is (2 (nums - n_i) + 1) / (2 n_i + 1).
idf_of(nums, n_i) == FLog2(2 * (nums - n_i) + 1, 2 * n_i + 1)

\* A slip the formula invites: the frequency dropped from the numerator.
contribution_without_frequency(frequency, idf, len) ==
    FMul(FDiv(Scale + K,
              frequency * Scale + FMul(K, (Scale - B) + FMul(B, len))),
         idf)

\* frequency * (1.0 + K) / (frequency + K * ((1.0 - B) + B * length)) * idf
contribution(frequency, idf, len) ==
    FMul(FDiv(frequency * (Scale + K),
              frequency * Scale + FMul(K, (Scale - B) + FMul(B, len))),
         idf)

\* "term in term_vectors and document_ID in term_vectors[term]"
matches(term, doc) == term \in DOMAIN term_vectors /\ doc \in DOMAIN term_vectors[term]

\* The inner loop: the sum over the query's terms, in order.
RECURSIVE similarity_of(_, _)
similarity_of(doc, query) ==
    IF query = <<>> THEN 0
    ELSE LET term == query[Len(query)]
             rest == similarity_of(doc, SubSeq(query, 1, Len(query) - 1))
         IN IF matches(term, doc)
            THEN rest + contribution(term_vectors[term][doc],
                                     idf_of(nums_of_documents,
                                            Cardinality(DOMAIN term_vectors[term])),
                                     document_lengths[doc])
            ELSE rest

\* "if similarity > 0.0"
is_kept(similarity) == similarity > 0

\* The outer loop: the pairs of documents 1..upto that pass the filter.
RECURSIVE collect(_, _)
collect(upto, query) ==
    IF upto = 0 THEN <<>>
    ELSE LET similarity == similarity_of(upto, query)
         IN collect(upto - 1, query)
            \o (IF is_kept(similarity) THEN <<<<upto, similarity>>>> ELSE <<>>)

\* A slip the sort invites: a pair put in front of those of equal key, as a
\* sort that is not stable under reverse = True would.
goes_before_or_level(pair, other) == pair[2] >= other[2]

\* Where sorted(..., reverse = True) puts a pair among those before it: behind
\* every pair whose key is not smaller (the sort is stable).
goes_before(pair, other) == pair[2] > other[2]

RECURSIVE insert_sorted(_, _)
insert_sorted(sorted, pair) ==
    IF sorted = <<>> THEN <<pair>>
    ELSE IF goes_before(pair, Head(sorted)) THEN <<pair>> \o sorted
    ELSE <<Head(sorted)>> \o insert_sorted(Tail(sorted), pair)

RECURSIVE sorted_desc(_)
sorted_desc(pairs) ==
    IF pairs = <<>> THEN <<>>
    ELSE insert_sorted(sorted_desc(SubSeq(pairs, 1, Len(pairs) - 1)), pairs[Len(pairs)])

\* "if len(similarities) > MOST_RELEVANT: return similarities[0:MOST_RELEVANT]"
truncate(pairs) ==
    IF Len(pairs) > MOST_RELEVANT THEN SubSeq(pairs, 1, MOST_RELEVANT) ELSE pairs

bm25_similarities(query) == truncate(sorted_desc(collect(nums_of_documents, query)))

\* math.log raises ValueError on a quotient below zero: a term of the query
\* with more postings than documents, met at a document that holds it.
log_raises(query) ==
    \E doc \in 1..nums_of_documents, i \in 1..Len(query) :
        /\ matches(query[i], doc)
        /\ Cardinality(DOMAIN term_vectors[query[i]]) > nums_of_documents

USER_STOP_WORD == <<"QUIT">>

\* One turn of manual_mode (bm25.py 262-275).
ManualQuery(user_query) ==
    /\ pc = "loaded"
    /\ IF user_query = USER_STOP_WORD THEN
            /\ pc' = "exited"
            /\ UNCHANGED <<error, stemming, query_terms, similarities, last_query>>
       ELSE LET q == process_single_query(stemming, user_query) IN
            /\ stemming' = q.stemming
            /\ last_query' = user_query
            /\ query_terms' = q.query_terms
            /\ IF log_raises(q.query_terms)
               THEN /\ pc' = "raised"
                    /\ error' = "ValueError"
                    /\ UNCHANGED similarities
               ELSE /\ similarities' = bm25_similarities(q.query_terms)
                    /\ UNCHANGED <<pc, error>>
    /\ UNCHANGED <<buildVars, term_vectors, document_lengths, index_file,
                   nums_of_documents, batchVars, evalVars>>

-----------------------------------------------------------------------------
(* The specification: any corpus of at most MaxLines lines and MaxDocs       *)
(* records over CorpusLines, then any queries over QueryLines.               *)

MaxLines == 5
MaxDocs == 2

CorpusLines ==
    { <<".", "I", " ", "1">>, <<".", "T">>, <<".", "W">>, <<".", "A">>, <<".", "X">>,
      <<"s", "o", "lar">>,
      <<"s", "u", "b", "-", " ", "and">>,
      <<"t", "h", "e", " ", "12", ",", "models">>,
      <<"a", "-", "n">> }

QueryLines ==
    { <<"Solar">>, <<"sub">>, <<"model", " ", "solar", " ", "models">>, <<"a", "-", "n">>,
      <<"QUIT">> }

NoFile == <<>>

\* The program before process_documents reads a line, whatever pc says.
Fresh ==
    /\ error = NoError
    /\ lineno = 0
    /\ first_line = ""
    /\ section = UNBOUND
    /\ document_ID = 0
    /\ length = 0
    /\ average_length = 0
    /\ num_of_documents = 0
    /\ stemming = Empty
    /\ term_vectors = Empty
    /\ document_lengths = Empty
    /\ occurrences = Empty
    /\ body_terms = Empty
    /\ last_tag = ""
    /\ last_content = <<>>
    /\ index_file = NoFile
    /\ nums_of_documents = 0
    /\ query_terms = <<>>
    /\ similarities = <<>>
    /\ last_query = <<>>
    /\ queries = [section |-> UNBOUND, query |-> <<>>, query_ID |-> 0, query_list |-> Empty]
    /\ query_history = [last_tag |-> "", lineno |-> 0, body_stems |-> Empty]

\* No evaluation is under way.
NoEvaluation ==
    /\ script = ""
    /\ relevance_scores = Empty
    /\ query_results = Empty
    /\ step = 0
    /\ ndcgs = Empty
    /\ report = Empty

Init == pc = "build" /\ Fresh /\ NoEvaluation

vars == <<pc, error, buildVars, indexVars, index_file, queryVars, batchVars, evalVars>>

ReadLine ==
    \E line \in CorpusLines :
        /\ lineno < MaxLines
        /\ Slice2(line) = ID => document_ID < MaxDocs
        /\ ProcessLine(line)

Query == \E user_query \in QueryLines : ManualQuery(user_query)

Next == ReadLine \/ EndOfFile \/ LoadIndex \/ Query

Spec == Init /\ [][Next]_vars

-----------------------------------------------------------------------------
(* A second specification: corpora of well-formed records (".I", an optional *)
(* title section, ".W" and one body line) whose bodies are those of the      *)
(* three-document scenario, in any order and number up to MaxScenarioDocs;   *)
(* the first record's title section may hold a line.                         *)

MaxScenarioDocs == 3

RecordStart == <<".", "I", " ", "1">>
TitleMark == <<".", "T">>
BodyMark == <<".", "W">>
SolarWindPlasma == <<"s", "o", "lar", " ", "wind", " ", "plasma">>
PlasmaFlowModel == <<"p", "l", "asma", " ", "flow", " ", "model">>
SolarFlareModel == <<"s", "o", "lar", " ", "flare", " ", "model">>
ScenarioBodies == {SolarWindPlasma, PlasmaFlowModel, SolarFlareModel}
ScenarioTitle == <<"f", "l", "ows", " ", "in", " ", "plasma">>

ScenarioQueries ==
    { <<"solar", " ", "plasma">>, <<"wind">>, <<"Solar", " ", "wind", ",", "flare">>,
      <<"flows", " ", "and", " ", "models">> }

\* The lines that may follow what has been read, for a well-formed record.
ScenarioLines ==
    IF section = UNBOUND THEN {RecordStart}
    ELSE IF section = ID THEN {TitleMark, BodyMark}
    ELSE IF section = TITLE
         THEN (IF lineno = 2 THEN {ScenarioTitle, BodyMark} ELSE {BodyMark})
    ELSE IF length = 0 THEN ScenarioBodies
    ELSE IF document_ID < MaxScenarioDocs THEN {RecordStart}
    ELSE {}

ReadScenarioLine == \E line \in ScenarioLines : ProcessLine(line)

ScenarioQuery == \E user_query \in ScenarioQueries : ManualQuery(user_query)

NextScenario == ReadScenarioLine \/ EndOfFile \/ LoadIndex \/ ScenarioQuery

SpecScenario == Init /\ [][NextScenario]_vars

-----------------------------------------------------------------------------
(* A third specification, for the ranking: corpora of up to MaxRankDocs      *)
(* well-formed records (".I", ".W", one body line), large enough for more    *)
(* than MOST_RELEVANT documents to score above zero.  The first              *)
(* LeadingBodies records have any of the bodies of FirstBodies, then comes a *)
(* run of records with the body "wind", then a run with the body "flow".     *)

MaxRankDocs == 35

WindWindFlow == <<"w", "i", "nd", " ", "wind", " ", "flow">>
WindSolar == <<"w", "i", "nd", " ", "solar">>
HitBody == <<"w", "i", "nd">>
FillBody == <<"f", "l", "ow">>
FirstBodies == {WindWindFlow, WindSolar}
LeadingBodies == Cardinality(FirstBodies)

RankQueries == { <<"wind">>, <<"wind", " ", "flow">>, <<"solar", " ", "flows">> }

\* The record before the one being read is of the "flow" run.
AfterFiller ==
    /\ document_ID > LeadingBodies + 1
    /\ ~matches("wind", document_ID - 1)

RankLines ==
    IF section = UNBOUND THEN {RecordStart}
    ELSE IF section = ID THEN {BodyMark}
    ELSE IF length = 0
         THEN (IF document_ID <= LeadingBodies THEN FirstBodies
               ELSE IF AfterFiller THEN {FillBody}
               ELSE {HitBody, FillBody})
    ELSE IF document_ID < MaxRankDocs THEN {RecordStart}
    ELSE {}

ReadRankLine == \E line \in RankLines : ProcessLine(line)

\* The corpus ends after a complete record.
EndOfRankFile == length > 0 /\ EndOfFile

RankQuery == \E user_query \in RankQueries : ManualQuery(user_query)

NextRank == ReadRankLine \/ EndOfRankFile \/ LoadIndex \/ RankQuery

SpecRank == Init /\ [][NextRank]_vars

-----------------------------------------------------------------------------
(* Evaluation mode of bm25.py (277-422) *)

\* What a call comes to: the value it returns, or the exception it raises.
Raised(exception) == [raised |-> exception, value |-> 0]
Returned(value) == [raised |-> NoError, value |-> value]

\* count / divisor, a Python float, on the grid.
ratio(count, divisor) == (count * Scale) \div divisor

\* make_query_results: the documents bm25_similarities returned for a query,
\* numbered from rank 1.
ranked(documents) == [i \in DOMAIN documents |-> <<documents[i], i>>]

make_relevance_set(query_ID) ==
    {relevance_scores[query_ID][i][1] :
        i \in {j \in DOMAIN relevance_scores[query_ID] :
                 relevance_scores[query_ID][j][2] <= RELEVANCE_SCORE_THRESHOLD}}

make_retrieval_set(query_ID) ==
    {query_results[query_ID][i][1] : i \in DOMAIN query_results[query_ID]}

\* The queries "for query_ID in relevance_scores" goes through, in order:
\* the relevance file lists its queries by ascending ID.
nth_query(k) ==
    CHOOSE q \in DOMAIN relevance_scores :
        Cardinality({p \in DOMAIN relevance_scores : p < q}) = k - 1

precision ==
    IF \E q \in DOMAIN relevance_scores : make_retrieval_set(q) = {}
    THEN Raised("ZeroDivisionError")
    ELSE Returned(
        SumOver([q \in DOMAIN relevance_scores |->
                    ratio(Cardinality(make_retrieval_set(q) \cap make_relevance_set(q)),
                          Cardinality(make_retrieval_set(q)))],
                DOMAIN relevance_scores)
        \div Cardinality(DOMAIN relevance_scores))

recall ==
    IF \E q \in DOMAIN relevance_scores : make_relevance_set(q) = {}
    THEN Raised("ZeroDivisionError")
    ELSE Returned(
        SumOver([q \in DOMAIN relevance_scores |->
                    ratio(Cardinality(make_relevance_set(q) \cap make_retrieval_set(q)),
                          Cardinality(make_relevance_set(q)))],
                DOMAIN relevance_scores)
        \div Cardinality(DOMAIN relevance_scores))

\* appearance_times of p_at_n for one query.
hits_at(query_ID, n) ==
    Cardinality({i \in DOMAIN query_results[query_ID] :
                    /\ query_results[query_ID][i][1] \in make_relevance_set(query_ID)
                    /\ query_results[query_ID][i][2] <= n})

p_at_n(n) ==
    Returned(
        SumOver([q \in DOMAIN relevance_scores |-> ratio(hits_at(q, n), n)],
                DOMAIN relevance_scores)
        \div Cardinality(DOMAIN query_results))

\* appearance_times of mean_average_precision after the pair at position i.
hits_up_to(query_ID, i) ==
    Cardinality({j \in 1..i :
                    query_results[query_ID][j][1] \in make_relevance_set(query_ID)})

\* current_map of mean_average_precision once the ranked list is walked.
current_map(query_ID) ==
    LET relevant_positions ==
            {i \in DOMAIN query_results[query_ID] :
                query_results[query_ID][i][1] \in make_relevance_set(query_ID)}
    IN SumOver([i \in relevant_positions |->
                    ratio(hits_up_to(query_ID, i), query_results[query_ID][i][2])],
               relevant_positions)

\* What one query adds to mean_average_precision.
average_precision(query_ID) ==
    current_map(query_ID) \div Cardinality(make_relevance_set(query_ID))

mean_average_precision ==
    IF \E q \in DOMAIN relevance_scores : make_relevance_set(q) = {}
    THEN Raised("ZeroDivisionError")
    ELSE Returned(
        SumOver([q \in DOMAIN relevance_scores |-> average_precision(q)],
                DOMAIN relevance_scores)
        \div Cardinality(DOMAIN query_results))

\* dict(score_list)[document]: the relevance score of a judged document.
score_of(query_ID, document) ==
    LET score_list == relevance_scores[query_ID]
        last == CHOOSE i \in DOMAIN score_list :
                    /\ score_list[i][1] = document
                    /\ \A j \in DOMAIN score_list : score_list[j][1] = document => j <= i
    IN score_list[last][2]

\* A change to the conversion: the relevance score taken as the gain.
gain_unconverted(query_ID, document) == score_of(query_ID, document)

\* RELEVANCE_SCORE_FIX - score_list_dict[document]
gain(query_ID, document) == RELEVANCE_SCORE_FIX - score_of(query_ID, document)

gain_vector(query_ID) ==
    [i \in DOMAIN query_results[query_ID] |->
        IF query_results[query_ID][i][1] \in make_relevance_set(query_ID)
        THEN gain(query_ID, query_results[query_ID][i][1])
        ELSE 0]

\* One gain for every pair of score_list, whatever its relevance score.
ideal_gain_vector(query_ID) ==
    [i \in DOMAIN relevance_scores[query_ID] |->
        RELEVANCE_SCORE_FIX - score_of(query_ID, relevance_scores[query_ID][i][1])]

\* vector[i] / math.log(i + 1, 2) of the loops at 395 and 404, where i counts
\* from 0: position is i + 1.
discounted(vector, position) ==
    IF position = 1 THEN vector[1] * Scale
    ELSE (vector[position] * Scale * Scale) \div FLog2(position, 1)

\* The running sums the two loops build.
cumulated(vector) ==
    [i \in DOMAIN vector |->
        SumOver([j \in 1..i |-> discounted(vector, j)], 1..i)]

dcg(query_ID) == cumulated(gain_vector(query_ID))
ideal_dcg(query_ID) == cumulated(ideal_gain_vector(query_ID))

\* zip(dcg, ideal_dcg) stops with the shorter list.
zip_length(query_ID) ==
    IF Len(query_results[query_ID]) < Len(relevance_scores[query_ID])
    THEN Len(query_results[query_ID])
    ELSE Len(relevance_scores[query_ID])

\* What the generator yields for one query, or the exception it raises there.
ndcg_at_n(query_ID, n) ==
    IF query_results[query_ID] = <<>> THEN Raised("IndexError")
    ELSE IF \E i \in 1..zip_length(query_ID) : ideal_dcg(query_ID)[i] = 0
    THEN Raised("ZeroDivisionError")
    ELSE Returned(
        [i \in 1..(IF zip_length(query_ID) > n THEN n ELSE zip_length(query_ID)) |->
            FDiv(dcg(query_ID)[i], ideal_dcg(query_ID)[i])])

-----------------------------------------------------------------------------
(* The evaluation functions of the older script (BM25.py 262-322), where    *)
(* every judged document is relevant.                                        *)

legacy_relevance_set(query) ==
    {relevance_scores[query][i][1] : i \in DOMAIN relevance_scores[query]}

legacy_hits_up_to(query, i) ==
    Cardinality({j \in 1..i : query_results[query][j][1] \in legacy_relevance_set(query)})

legacy_precision ==
    IF \E q \in DOMAIN relevance_scores : query_results[q] = <<>>
    THEN Raised("ZeroDivisionError")
    ELSE Returned(
        SumOver([q \in DOMAIN relevance_scores |->
                    ratio(legacy_hits_up_to(q, Len(query_results[q])),
                          Len(query_results[q]))],
                DOMAIN relevance_scores)
        \div Cardinality(DOMAIN query_results))

\* "for query in bm25_results" reads relevance[query] of every query.
legacy_recall ==
    IF \E q \in DOMAIN query_results : q \notin DOMAIN relevance_scores
    THEN Raised("KeyError")
    ELSE Returned(
        SumOver([q \in DOMAIN query_results |->
                    ratio(Cardinality(legacy_relevance_set(q) \cap make_retrieval_set(q)),
                          Len(relevance_scores[q]))],
                DOMAIN query_results)
        \div Cardinality(DOMAIN relevance_scores))

\* What one query adds to mean_average_precision(n): every position adds
\* to current_map, and the sum is divided by n.
legacy_average_precision(query, n) ==
    SumOver([i \in DOMAIN query_results[query] |->
                ratio(legacy_hits_up_to(query, i), query_results[query][i][2])],
            DOMAIN query_results[query])
    \div n

legacy_mean_average_precision(n) ==
    Returned(
        SumOver([q \in DOMAIN relevance_scores |-> legacy_average_precision(q, n)],
                DOMAIN relevance_scores)
        \div Cardinality(DOMAIN query_results))

legacy_hits_at(query, n) ==
    Cardinality({i \in DOMAIN query_results[query] :
                    /\ query_results[query][i][1] \in legacy_relevance_set(query)
                    /\ query_results[query][i][2] < n})

legacy_p_at_n(n) ==
    Returned(
        SumOver([q \in DOMAIN relevance_scores |-> ratio(legacy_hits_at(q, n), n)],
                DOMAIN relevance_scores)
        \div Cardinality(DOMAIN query_results))

NDCG_at_n(n) == Returned(0)

-----------------------------------------------------------------------------
(* A fourth specification, for the evaluation mode: the relevance scores and *)
(* the query results are loaded, and the script prints its metrics in the    *)
(* order of its calls; an exception ends the run.  The first query has any   *)
(* ranking of up to MaxEvalDocs documents and any score list of up to        *)
(* MaxJudged of them; a second query, judged or not, has one of a few; and   *)
(* queries with up to MaxLongJudged judged documents, more than N, have      *)
(* their ideal ranking or its reverse.                                       *)

MaxEvalDocs == 3
MaxJudged == 2
MaxLongJudged == 12

\* Relevance scores: lower is more relevant, 5 is above the threshold.
Grades == {1, 4, 5}

Distinct(s) == \A i, j \in DOMAIN s : i # j => s[i] # s[j]

\* What bm25_similarities can return: documents without repetition.
Rankings ==
    {s \in UNION {[1..k -> 1..MaxEvalDocs] : k \in 0..MaxEvalDocs} : Distinct(s)}

\* What load_relevance_scores can return for a query: pairs of distinct
\* documents, sorted by relevance score.
ScoreLists ==
    {s \in UNION {[1..k -> (1..MaxEvalDocs) \X Grades] : k \in 1..MaxJudged} :
        /\ \A i, j \in DOMAIN s : i # j => s[i][1] # s[j][1]
        /\ \A i, j \in DOMAIN s : i < j => s[i][2] <= s[j][2]}

SecondRankings == {<<>>, <<1>>, <<2, 1>>}
SecondScoreLists == {<< <<1, 1>> >>, << <<2, 5>> >>, << <<1, 1>>, <<2, 5>> >>}

Inputs(name, scores, results) ==
    [script |-> name, relevance_scores |-> scores, query_results |-> results]

OneQueryInputs(name) ==
    {Inputs(name, 1 :> s, 1 :> ranked(r)) : s \in ScoreLists, r \in Rankings}

TwoQueryInputs(name) ==
    {Inputs(name, 1 :> s, (1 :> ranked(r)) @@ (2 :> ranked(r2))) :
        s \in ScoreLists, r \in Rankings, r2 \in SecondRankings}
    \cup
    {Inputs(name, (1 :> s) @@ (2 :> s2), (1 :> ranked(r)) @@ (2 :> ranked(r2))) :
        s \in ScoreLists, r \in Rankings, r2 \in SecondRankings, s2 \in SecondScoreLists}

\* k judged documents k, k - 1 .. 1, the first best of them with score 1 and
\* the others with score 3.
LongScoreList(k, best) ==
    [i \in 1..k |-> <<k + 1 - i, IF i <= best THEN 1 ELSE 3>>]

LongInputs ==
    {Inputs("bm25.py", 1 :> LongScoreList(k, best),
            1 :> ranked([i \in 1..k |-> IF ideal THEN k + 1 - i ELSE i])) :
        k \in 1..MaxLongJudged, best \in 0..MaxLongJudged, ideal \in BOOLEAN}

\* The older script ranks every document: its rankings are as long as the
\* collection is large, none is empty.
LegacyRankings(results) ==
    \A q, p \in DOMAIN results : results[q] # <<>> /\ Len(results[q]) = Len(results[p])

EvalInputs ==
    OneQueryInputs("bm25.py") \cup TwoQueryInputs("bm25.py") \cup LongInputs
    \cup {i \in OneQueryInputs("BM25.py") \cup TwoQueryInputs("BM25.py") :
            LegacyRankings(i.query_results)}

InitEval ==
    /\ pc = "evaluation"
    /\ Fresh
    /\ \E inputs \in EvalInputs :
        /\ script = inputs.script
        /\ relevance_scores = inputs.relevance_scores
        /\ query_results = inputs.query_results
    /\ step = 0
    /\ ndcgs = Empty
    /\ report = Empty

\* print_evaluation_results: the calls before the NDCG loop, in order.
Metrics == <<"precision", "recall", "p_at_n", "mean_average_precision">>

call(metric) ==
    CASE metric = "precision" -> precision
      [] metric = "recall" -> recall
      [] metric = "p_at_n" -> p_at_n(N)
      [] metric = "mean_average_precision" -> mean_average_precision

PrintMetric ==
    /\ pc = "evaluation"
    /\ script = "bm25.py"
    /\ step < Len(Metrics)
    /\ LET outcome == call(Metrics[step + 1])
       IN IF outcome.raised # NoError
          THEN /\ pc' = "raised"
               /\ error' = outcome.raised
               /\ UNCHANGED <<step, report>>
          ELSE /\ report' = Put(report, Metrics[step + 1], outcome.value)
               /\ step' = step + 1
               /\ UNCHANGED <<pc, error>>
    /\ UNCHANGED <<buildVars, indexVars, index_file, queryVars, batchVars, script,
                   relevance_scores, query_results, ndcgs>>

\* One turn of "for query_ID, ndcg in ndcg_at_n(N)"; the run ends with the
\* last query.
PrintNdcg ==
    /\ pc = "evaluation"
    /\ script = "bm25.py"
    /\ step = Len(Metrics)
    /\ LET query_ID == nth_query(Cardinality(DOMAIN ndcgs) + 1)
           outcome == ndcg_at_n(query_ID, N)
       IN IF outcome.raised # NoError
          THEN /\ pc' = "raised"
               /\ error' = outcome.raised
               /\ UNCHANGED ndcgs
          ELSE /\ ndcgs' = Put(ndcgs, query_ID, outcome.value)
               /\ pc' = IF DOMAIN ndcgs' = DOMAIN relevance_scores
                        THEN "reported" ELSE pc
               /\ UNCHANGED error
    /\ UNCHANGED <<buildVars, indexVars, index_file, queryVars, batchVars, script,
                   relevance_scores, query_results, step, report>>

\* The evaluation branch of BM25.py (375-380): its calls, in order.
LegacyMetrics ==
    <<"precision", "recall", "mean_average_precision", "p_at_n", "NDCG_at_n">>

legacy_call(metric) ==
    CASE metric = "precision" -> legacy_precision
      [] metric = "recall" -> legacy_recall
      [] metric = "mean_average_precision" -> legacy_mean_average_precision(N)
      [] metric = "p_at_n" -> legacy_p_at_n(N)
      [] metric = "NDCG_at_n" -> NDCG_at_n(N)

PrintLegacyMetric ==
    /\ pc = "evaluation"
    /\ script = "BM25.py"
    /\ LET outcome == legacy_call(LegacyMetrics[step + 1])
       IN IF outcome.raised # NoError
          THEN /\ pc' = "raised"
               /\ error' = outcome.raised
               /\ UNCHANGED <<step, report>>
          ELSE /\ report' = Put(report, LegacyMetrics[step + 1], outcome.value)
               /\ step' = step + 1
               /\ pc' = IF step' = Len(LegacyMetrics) THEN "reported" ELSE pc
               /\ UNCHANGED error
    /\ UNCHANGED <<buildVars, indexVars, index_file, queryVars, batchVars, script,
                   relevance_scores, query_results, ndcgs>>

NextEval == PrintMetric \/ PrintNdcg \/ PrintLegacyMetric

SpecEval == InitEval /\ [][NextEval]_vars

-----------------------------------------------------------------------------
(* process_queries (bm25.py 211-235) and make_query_results (297-308) *)

\* History: the stems of a line read after the body marker of its record
\* are added to the record's body stems.
note_body_stems(history, query_ID, stems) ==
    IF history.last_tag = WORDS
    THEN Put(history.body_stems, query_ID,
             (IF query_ID \in DOMAIN history.body_stems
              THEN history.body_stems[query_ID] ELSE {})
             \cup {stems[i] : i \in 1..Len(stems)})
    ELSE history.body_stems

\* One turn of "for line in fp" of process_queries.
ProcessQueryLine(line) ==
    /\ pc = "loaded"
    /\ LET current_section == Slice2(line) IN
       IF current_section \in LABELS THEN
            /\ queries' =
                 [query_list |-> IF current_section = ID
                                 THEN Put(queries.query_list, queries.query_ID, queries.query)
                                 ELSE queries.query_list,
                  query |-> IF current_section = ID THEN <<>> ELSE queries.query,
                  query_ID |-> IF current_section = ID
                               THEN queries.query_ID + 1 ELSE queries.query_ID,
                  section |-> IF current_section = WORDS
                              THEN current_section ELSE queries.section]
            /\ query_history' = [query_history EXCEPT !.last_tag = current_section,
                                                      !.lineno = @ + 1]
            /\ UNCHANGED <<pc, error, stemming, last_query>>
       ELSE IF queries.section = UNBOUND THEN
            \* "if section in CONTENTS" reads a local never assigned.
            /\ pc' = "raised"
            /\ error' = "UnboundLocalError"
            /\ UNCHANGED <<stemming, last_query, queries, query_history>>
       ELSE IF queries.section \in CONTENTS THEN
            LET q == process_single_query(stemming, line) IN
            /\ stemming' = q.stemming
            /\ last_query' = line
            /\ queries' = [queries EXCEPT
                             !.query = IF @ = <<>> THEN q.query_terms
                                       ELSE @ \o q.query_terms]
            /\ query_history' =
                 [last_tag |-> IF is_tag_line(line) THEN current_section
                               ELSE query_history.last_tag,
                  lineno |-> query_history.lineno + 1,
                  body_stems |-> note_body_stems(query_history, queries.query_ID,
                                                 q.query_terms)]
            /\ UNCHANGED <<pc, error>>
       ELSE /\ query_history' = [query_history EXCEPT !.lineno = @ + 1]
            /\ UNCHANGED <<pc, error, stemming, last_query, queries>>
    /\ UNCHANGED <<buildVars, term_vectors, document_lengths, index_file,
                   nums_of_documents, query_terms, similarities, evalVars>>

\* The documents of the pairs bm25_similarities returned.
documents_of(pairs) == [i \in DOMAIN pairs |-> pairs[i][1]]

\* The end of process_queries (233-235), then the loop of make_query_results.
EndOfQueryFile ==
    /\ pc = "loaded"
    /\ LET query_list ==
            Remove(Put(queries.query_list, queries.query_ID, queries.query), 0)
       IN /\ queries' = [queries EXCEPT !.query_list = query_list]
          /\ IF \E q \in DOMAIN query_list : log_raises(query_list[q])
             THEN /\ pc' = "raised"
                  /\ error' = "ValueError"
                  /\ UNCHANGED query_results
             ELSE /\ pc' = "ranked"
                  /\ query_results' =
                        [q \in DOMAIN query_list |->
                            ranked(documents_of(bm25_similarities(query_list[q])))]
                  /\ UNCHANGED error
    /\ UNCHANGED <<buildVars, indexVars, index_file, queryVars, query_history, script,
                   relevance_scores, step, ndcgs, report>>

-----------------------------------------------------------------------------
(* A fifth specification, for the batch queries: the index of a corpus of   *)
(* four well-formed records is built, dumped and loaded, then any query      *)
(* file of up to MaxQueryLines lines over BatchQueryLines is processed and   *)
(* its queries are ranked.                                                   *)

MaxQueryLines == 5

BatchCorpus ==
    << RecordStart, BodyMark, SolarWindPlasma, RecordStart, BodyMark, FillBody,
       RecordStart, BodyMark, FillBody, RecordStart, BodyMark >>

\* The body of the last record.
BatchLastBodies == {FillBody, WindSolar}

BatchQueryLines ==
    { RecordStart, BodyMark, TitleMark,
      <<"s", "o", "lar", " ", "wind">>, <<"W", "i", "nd", " ", "flows">> }

ReadBatchCorpusLine ==
    \/ /\ lineno < Len(BatchCorpus)
       /\ ProcessLine(BatchCorpus[lineno + 1])
    \/ /\ lineno = Len(BatchCorpus)
       /\ \E line \in BatchLastBodies : ProcessLine(line)

EndOfBatchCorpus == lineno = Len(BatchCorpus) + 1 /\ EndOfFile

ReadQueryLine ==
    \E line \in BatchQueryLines :
        /\ query_history.lineno < MaxQueryLines
        /\ ProcessQueryLine(line)

NextBatch ==
    ReadBatchCorpusLine \/ EndOfBatchCorpus \/ LoadIndex \/ ReadQueryLine \/ EndOfQueryFile

SpecBatch == Init /\ [][NextBatch]_vars

-----------------------------------------------------------------------------
(* Claims about the ranking *)

Positive == {d \in 1..nums_of_documents : similarity_of(d, query_terms) > 0}

\* The reference order: by score descending, equal scores by ascending
\* document ID.
RanksBefore(p, q) == p[2] > q[2] \/ (p[2] = q[2] /\ p[1] < q[1])

Min(a, b) == IF a < b THEN a ELSE b

\* C1: what bm25_similarities returns is the first min(15, m) elements of
\* the reference ranking of the m documents whose aggregate score is
\* strictly positive: only such documents with their scores, in the
\* reference order, and every positive document left out ranks behind all
\* that are returned.
RankingIsReference ==
    pc = "loaded" =>
        /\ Len(similarities) = Min(15, Cardinality(Positive))
        /\ \A i \in 1..Len(similarities) :
              /\ similarities[i][1] \in Positive
              /\ similarities[i][2] = similarity_of(similarities[i][1], query_terms)
        /\ \A i \in 1..Len(similarities) - 1 :
              RanksBefore(similarities[i], similarities[i + 1])
        /\ \A d \in Positive :
              \/ \E i \in 1..Len(similarities) : similarities[i][1] = d
              \/ \A i \in 1..Len(similarities) :
                    RanksBefore(similarities[i], <<d, similarity_of(d, query_terms)>>)

\* C1's case: a query scored with more than 15 documents above zero, equal
\* scores and different scores among those returned, and a document that
\* matches a query term left out for its score below zero.
RankingCapped ==
    /\ pc = "loaded"
    /\ query_terms # <<>>
    /\ Cardinality(Positive) > 15
    /\ Len(similarities) = 15
    /\ \E i \in 1..14 : similarities[i][2] = similarities[i + 1][2]
    /\ \E i \in 1..14 : similarities[i][2] > similarities[i + 1][2]
    /\ \E d \in 1..nums_of_documents :
          /\ \E j \in 1..Len(query_terms) : matches(query_terms[j], d)
          /\ similarity_of(d, query_terms) < 0

-----------------------------------------------------------------------------
(* Claims about the three-document scenario *)

ScenarioVectors ==
    [solar |-> (1 :> 1) @@ (3 :> 1), wind |-> (1 :> 1),
     plasma |-> (1 :> 1) @@ (2 :> 1), flow |-> (2 :> 1),
     model |-> (2 :> 1) @@ (3 :> 1), flare |-> (3 :> 1)]

\* The scenario's index is loaded and the query ["solar", "plasma"] has been
\* scored against it.
ScenarioScored ==
    /\ pc = "loaded"
    /\ nums_of_documents = 3
    /\ term_vectors = ScenarioVectors
    /\ \A d \in 1..3 : document_lengths[d] = document_lengths[1]
    /\ query_terms = <<"solar", "plasma">>

\* C2 as stated: document 1 scores strictly higher than documents 2 and 3
\* and is at rank 1 of the result.
ScenarioDoc1Highest ==
    ScenarioScored =>
        /\ similarity_of(1, query_terms) > similarity_of(2, query_terms)
        /\ similarity_of(1, query_terms) > similarity_of(3, query_terms)
        /\ similarities # <<>>
        /\ similarities[1][1] = 1

\* C2, amended: every term of the scenario held by two of the three
\* documents has a negative idf, so document 1, which matches both query
\* terms, scores strictly lower than documents 2 and 3, all three scores are
\* negative, and the result is empty: no document is at rank 1.
ScenarioDoc1Lowest ==
    ScenarioScored =>
        /\ idf_of(3, 2) < 0
        /\ similarity_of(1, query_terms) < similarity_of(2, query_terms)
        /\ similarity_of(1, query_terms) < similarity_of(3, query_terms)
        /\ similarity_of(2, query_terms) < 0
        /\ similarity_of(3, query_terms) < 0
        /\ similarities = <<>>

\* C2's case: the scenario, built, loaded and queried.
ScenarioReached == ScenarioScored /\ similarities = bm25_similarities(query_terms)

-----------------------------------------------------------------------------
(* Claims about the per-term contribution *)

\* The raw frequencies the contribution is compared over.
MaxFrequency == 4

\* The (idf, length) pairs the loaded index gives the scorer: one per term
\* that math.log accepts and per document.
ScoringCases ==
    {<<t, d>> \in (DOMAIN term_vectors) \X (DOMAIN document_lengths) :
        Cardinality(DOMAIN term_vectors[t]) <= nums_of_documents}
PostingCount(t) == Cardinality(DOMAIN term_vectors[t])
IdfOfTerm(t) == idf_of(nums_of_documents, PostingCount(t))

\* C3 as stated: for every idf the engine produces and every document
\* length, the contribution does not decrease when the raw frequency grows.
ContributionNonDecreasing ==
    pc = "loaded" =>
        \A c \in ScoringCases, f \in 1..MaxFrequency :
            contribution(f + 1, IdfOfTerm(c[1]), document_lengths[c[2]])
                >= contribution(f, IdfOfTerm(c[1]), document_lengths[c[2]])

\* C3, amended: the contribution does not decrease with the raw frequency for
\* a term held by at most half of the documents (idf >= 0), and does not
\* increase with it for a term held by more than half of them (idf < 0).
ContributionMonotoneBySign ==
    pc = "loaded" =>
        \A c \in ScoringCases, f \in 1..MaxFrequency :
            LET lower_f == contribution(f, IdfOfTerm(c[1]), document_lengths[c[2]])
                higher_f == contribution(f + 1, IdfOfTerm(c[1]), document_lengths[c[2]])
            IN /\ 2 * PostingCount(c[1]) <= nums_of_documents => higher_f >= lower_f
               /\ 2 * PostingCount(c[1]) > nums_of_documents => higher_f <= lower_f

\* C3's case: a loaded index with a term of positive idf and a term of
\* negative idf, the second strictly losing score as the frequency grows.
ContributionBothSigns ==
    /\ pc = "loaded"
    /\ \E c \in ScoringCases : IdfOfTerm(c[1]) > 0
    /\ \E c \in ScoringCases :
          /\ IdfOfTerm(c[1]) < 0
          /\ contribution(2, IdfOfTerm(c[1]), document_lengths[c[2]])
                < contribution(1, IdfOfTerm(c[1]), document_lengths[c[2]])

-----------------------------------------------------------------------------
(* Claims about process_documents *)

\* What the grid's rounding can move the sum of n normalised lengths by: the
\* floor of the average (at most n * n units over the sum) and the floor of
\* each quotient.
Tolerance(n) == n * n + 1

Abs(x) == IF x < 0 THEN -x ELSE x

SqrtOfBody(d) == FSqrt(IF d \in DOMAIN body_terms THEN body_terms[d] ELSE 0)
SumOfSqrt == SumOver([d \in 1..document_ID |-> SqrtOfBody(d)], 1..document_ID)

StartsWithRecord == first_line = ID
SomeBody == \E d \in 1..document_ID : d \in DOMAIN body_terms /\ body_terms[d] > 0

\* C9: for a corpus whose first line is a record start and that has a
\* document of nonzero body length, process_documents does not fail, it
\* divides by (the sum of the square-rooted lengths of documents 1..n) / n,
\* document 0 left out and the last document in, and the normalised lengths
\* of documents 1..n sum to n, up to the grid's rounding.
NormalisedLengthsAverageOne ==
    (StartsWithRecord /\ SomeBody) =>
        /\ ~(pc = "raised" /\ error \in {"KeyError", "ZeroDivisionError"})
        /\ pc = "dumped" =>
            /\ DOMAIN document_lengths = 1..document_ID
            /\ num_of_documents = document_ID
            /\ average_length = SumOfSqrt \div document_ID
            /\ \A d \in 1..document_ID :
                  document_lengths[d] = FDiv(SqrtOfBody(d), average_length)
            /\ Abs(SumOver(document_lengths, 1..document_ID) - document_ID * Scale)
                  <= Tolerance(document_ID)

\* C9's case: a finished build of two or more records, the last one with a
\* body of its own length.
NormalisedTwoDocuments ==
    /\ pc = "dumped"
    /\ StartsWithRecord
    /\ document_ID >= 2
    /\ document_ID \in DOMAIN body_terms
    /\ body_terms[document_ID] > 0
    /\ \E d \in 1..document_ID : SqrtOfBody(d) # SqrtOfBody(document_ID)

PostingSum(t) == SumOver(term_vectors[t], DOMAIN term_vectors[t])

\* C11: once process_documents has returned for a corpus whose first line is
\* a record start, the keys of document_lengths are exactly 1..n, n the
\* number of record starts read (whatever number follows the marker), and
\* every document ID of every posting list is in 1..n with a count of at
\* least 1; the same holds of the index loaded back.
DocumentIDsDense ==
    (StartsWithRecord /\ pc \in {"dumped", "loaded", "exited"}) =>
        /\ num_of_documents = document_ID
        /\ num_of_documents >= 1
        /\ DOMAIN document_lengths = 1..num_of_documents
        /\ \A t \in DOMAIN term_vectors :
              \A d \in DOMAIN term_vectors[t] :
                  d \in 1..num_of_documents /\ term_vectors[t][d] >= 1

\* C11's case: a finished build of two records or more, written with the
\* same number after the marker, the second one holding a posting.
DenseTwoDocuments ==
    /\ pc = "dumped"
    /\ StartsWithRecord
    /\ num_of_documents >= 2
    /\ \E t \in DOMAIN term_vectors : 2 \in DOMAIN term_vectors[t]

\* C14 as stated: a malformed line of the corpus (a section marker before
\* any record start, content under it, content before any marker) is
\* ignored: no error is raised for it, no posting list holds document 0, and
\* the average divides the square-rooted lengths of documents 1..n alone.
MalformedLinesIgnored ==
    /\ ~(pc = "raised" /\ error = "UnboundLocalError")
    /\ \A t \in DOMAIN term_vectors : 0 \notin DOMAIN term_vectors[t]
    /\ pc = "dumped" => average_length = SumOfSqrt \div document_ID

\* C15 as stated: a line of the corpus adds a posting or length only if the
\* most recent tag line, the line itself included, is an author,
\* bibliography or body marker: a title marker or an unrecognised tag line
\* such as ".X" adds nothing, nor do the content lines after it.
OnlyAllowListedTagsFeed ==
    [][(pc = "build" /\ (term_vectors' # term_vectors \/ body_terms' # body_terms))
          => last_tag' \in CONTENTS]_vars

\* The stems of the valid hyphen-delimited elements of the tokens of a line
\* (lowered for a query).
ElementStems(line, lowered) ==
    LET terms == terms_of(line)
        cleaned(t) == IF lowered THEN lower_term(remove_dots(t)) ELSE remove_dots(t)
        elements(t) == split_on(cleaned(t), {"-"}, TRUE, <<>>)
    IN {stem(Str(elements(terms[i])[j])) :
            <<i, j>> \in {p \in (1..Len(terms)) \X (1..Len(line) + 1) :
                            /\ Len(elements(terms[p[1]])) > 1
                            /\ p[2] <= Len(elements(terms[p[1]]))
                            /\ is_valid(elements(terms[p[1]])[p[2]])}}

\* C16 as stated: every valid hyphen-delimited element of a token is emitted
\* as a term, by process_documents into the index and by
\* process_single_query into the query terms, whether or not the joined
\* compound passes the filter.
HyphenElementsEmitted ==
    /\ ElementStems(last_content, FALSE) \subseteq DOMAIN term_vectors
    /\ ElementStems(last_query, TRUE)
          \subseteq {query_terms[i] : i \in 1..Len(query_terms)}

\* C10 as stated: the posting frequencies of a term sum to the number of
\* term occurrences in indexed sections that yield its stem, an occurrence
\* counted once per stem.
PostingsCountOccurrences ==
    pc = "build" =>
        /\ DOMAIN term_vectors = DOMAIN occurrences
        /\ \A t \in DOMAIN term_vectors : PostingSum(t) = occurrences[t]

-----------------------------------------------------------------------------
(* Claims about the queries *)

\* C13 as stated: once the index is loaded, the queries processed and scored
\* leave the stemming cache, term_vectors and document_lengths as loaded.
QueriesLeaveIndexAsLoaded ==
    pc \in {"loaded", "exited"} =>
        /\ stemming = index_file[1]
        /\ term_vectors = [t \in DOMAIN index_file[2] |-> load_keys(index_file[2][t])]
        /\ document_lengths = load_keys(index_file[3])

\* The queries of process_queries once they are ranked.
BatchQueries == IF pc = "ranked" THEN queries.query_list ELSE Empty

\* C12 as stated: every list of query terms handed to the scorer, by
\* process_single_query from one line or by process_queries from the lines
\* of a record, holds each stem at most once.
QueryStemsOnce ==
    /\ Distinct(query_terms)
    /\ \A k \in DOMAIN BatchQueries : Distinct(BatchQueries[k])

\* C17 as stated: the term list of query k holds only stems of content lines
\* read after the body marker of record k, and the queries are numbered
\* 1..n in the order of their record starts.
QueryTermsFromBodyOnly ==
    pc = "ranked" =>
        /\ DOMAIN queries.query_list = 1..queries.query_ID
        /\ \A k \in DOMAIN queries.query_list :
              {queries.query_list[k][i] : i \in 1..Len(queries.query_list[k])}
                 \subseteq (IF k \in DOMAIN query_history.body_stems
                            THEN query_history.body_stems[k] ELSE {})

-----------------------------------------------------------------------------
(* Claims about the evaluation functions *)

\* The calls of bm25.py that have returned.
Printed(metric) == script = "bm25.py" /\ metric \in DOMAIN report

EmptyRelevantSet == \E q \in DOMAIN relevance_scores : make_relevance_set(q) = {}

\* C4: when some judged query has no document with a relevance score of at
\* most 4, the evaluation of bm25.py goes through recall() and
\* mean_average_precision() without an uncaught division by zero.
EmptyRelevantSetSurvived ==
    (script = "bm25.py" /\ EmptyRelevantSet /\ Printed("precision"))
        => ~(pc = "raised" /\ error = "ZeroDivisionError")

\* The count of one query's retrieved documents of rank at most n that are in
\* its relevant set, over n.
PrecisionAt(q, n) ==
    ratio(Cardinality({i \in DOMAIN query_results[q] :
                          /\ query_results[q][i][1] \in make_relevance_set(q)
                          /\ i <= n}), n)

\* C5: what p_at_n(N) returns is the arithmetic mean, over the judged
\* queries, of each query's count of relevant documents at rank <= N over N:
\* the sum is divided by the number of judged queries.
PAtNIsMeanOverJudged ==
    Printed("p_at_n") =>
        report["p_at_n"] =
            SumOver([q \in DOMAIN relevance_scores |-> PrecisionAt(q, N)],
                    DOMAIN relevance_scores)
            \div Cardinality(DOMAIN relevance_scores)

\* The walk of a ranked list (pairs) from position i with hits relevant
\* documents seen: each relevant document adds (hits so far, itself
\* included) / rank, any other document adds nothing.
RECURSIVE Walk(_, _, _, _)
Walk(pairs, relevant, i, hits) ==
    IF i > Len(pairs) THEN 0
    ELSE IF pairs[i][1] \in relevant
    THEN ratio(hits + 1, pairs[i][2]) + Walk(pairs, relevant, i + 1, hits + 1)
    ELSE Walk(pairs, relevant, i + 1, hits)

AveragePrecision(q) ==
    Walk(query_results[q], make_relevance_set(q), 1, 0)
    \div Cardinality(make_relevance_set(q))

\* What mean_average_precision adds for one query, in the script that runs.
Accumulated(q) ==
    IF script = "bm25.py" THEN average_precision(q) ELSE legacy_average_precision(q, N)

\* C6: for every judged query with a non-empty relevant set, what
\* mean_average_precision accumulates for the query is the sum, over the
\* positions holding a relevant document, of hits so far over rank, divided
\* by the size of the relevant set, in bm25.py and in BM25.py.
MapAccumulatesAveragePrecision ==
    "mean_average_precision" \in DOMAIN report =>
        \A q \in DOMAIN relevance_scores :
            make_relevance_set(q) # {} => Accumulated(q) = AveragePrecision(q)

\* The same of bm25.py alone.
NewMapAccumulatesAveragePrecision ==
    Printed("mean_average_precision") =>
        \A q \in DOMAIN relevance_scores :
            make_relevance_set(q) # {} => Accumulated(q) = AveragePrecision(q)

Smaller(a, b) == IF a < b THEN a ELSE b

RelevantCount(q) == Cardinality(make_relevance_set(q))

\* The ranked result of q lists its relevant documents first, by ascending
\* relevance score, all of them or as many as a result holds.
IdealRanking(q) ==
    /\ make_relevance_set(q) # {}
    /\ Len(query_results[q]) >= Smaller(RelevantCount(q), MOST_RELEVANT)
    /\ \A i \in 1..Smaller(RelevantCount(q), Len(query_results[q])) :
        /\ query_results[q][i][1] \in make_relevance_set(q)
        /\ score_of(q, query_results[q][i][1]) = relevance_scores[q][i][2]

\* C7: for a judged query with a non-empty relevant set whose ranked result
\* is the ideal ranking, ndcg_at_n reports DCG[i] = idealDCG[i], an NDCG of
\* 1.0, at every rank i from 1 to min(size of the relevant set, N).
IdealRankingScoresOne ==
    \A q \in DOMAIN ndcgs :
        IdealRanking(q) =>
            \A i \in 1..Smaller(RelevantCount(q), N) :
                /\ i <= Len(ndcgs[q])
                /\ dcg(q)[i] = ideal_dcg(q)[i]
                /\ ndcgs[q][i] = Scale

\* C7, witness: NDCG is reported for an ideal ranking of more than N
\* relevant documents of two relevance scores.
IdealRankingReported ==
    \E q \in DOMAIN ndcgs :
        /\ IdealRanking(q)
        /\ RelevantCount(q) > N
        /\ \E i, j \in DOMAIN relevance_scores[q] :
            relevance_scores[q][i][2] < relevance_scores[q][j][2]

\* The gains of the relevant documents of q, by ascending relevance score.
RelevantGains(q) ==
    [i \in 1..RelevantCount(q) |-> RELEVANCE_SCORE_FIX - relevance_scores[q][i][2]]

\* C8: the ideal gain vector of ndcg_at_n holds one gain for each judged
\* document of the relevant set and for no other judged document, so that
\* the reported NDCG sequence has no entry past the relevant documents.
IdealVectorOfRelevantOnly ==
    \A q \in DOMAIN ndcgs :
        /\ ideal_gain_vector(q) = RelevantGains(q)
        /\ Len(ndcgs[q]) <= RelevantCount(q)

=============================================================================
